---------------------------- MODULE Spec2Model ----------------------------
(***************************************************************************)
(* Verification model of the serverless-go user API                        *)
(* (39sanskar/serverless-go): the Lambda handler (cmd/main.go), the        *)
(* request handlers (pkg/handlers), the DynamoDB repository                *)
(* (pkg/repository) and the validators (pkg/validators).                   *)
(*                                                                         *)
(* Representation.  A Go string is a Text: a sequence of one-character     *)
(* strings (fixed message texts are written as one chunk).  A JSON         *)
(* document (request body, response body) is a sequence of tokens.  The    *)
(* DynamoDB table is a function from the keys present to the stored item   *)
(* (a map from attribute names to attribute values).  Each concurrent      *)
(* Lambda invocation is a process whose steps are delimited by its calls   *)
(* to the store: the store executes each GetItem, PutItem, DeleteItem and  *)
(* Scan atomically, and nothing else is shared between invocations.        *)
(***************************************************************************)
EXTENDS Integers, Sequences, FiniteSets, TLC

VARIABLES
    store,      \* the DynamoDB table: [keys present -> item]
    inv,        \* inv[p]: the state of Lambda invocation slot p
    vUser,      \* validators: the record handed to ValidateUser
    vErr,       \* validators: what ValidateUser returned for it
    client      \* a listing client: the pages it has fetched so far

vars == <<store, inv, vUser, vErr, client>>

-----------------------------------------------------------------------------
(* Bounds of the model *)

\* number of concurrent Lambda invocation slots
NumInvocations == 2

\* ValidateUser is applied to every email of at most this many characters
MaxEmailLen == 4

\* number of emails the table may hold a record for
NumEmails == 3

-----------------------------------------------------------------------------
(* Texts *)

Lower == {"a","b","c","d","e","f","g","h","i","j","k","l","m",
          "n","o","p","q","r","s","t","u","v","w","x","y","z"}
Upper == {"A","B","C","D","E","F","G","H","I","J","K","L","M",
          "N","O","P","Q","R","S","T","U","V","W","X","Y","Z"}
Digit == {"0","1","2","3","4","5","6","7","8","9"}

\* [a-zA-Z0-9]
Alnum == Lower \cup Upper \cup Digit

\* The characters of rxEmail's local part: letters, digits and the
\* punctuation below (and the backquote, which a TLA+ string cannot hold).
LocalChars ==
    Alnum \cup {".","!","#","$","%","&","'","*","+","/","=","?","^","_",
                "{","|","}","~","-"}

\* n copies of the character c
Rep(c, n) == [i \in 1..n |-> c]

EmptyText == << >>

-----------------------------------------------------------------------------
(* pkg/models: User *)

User(email, first, last) ==
    [Email |-> email, FirstName |-> first, LastName |-> last]

ZeroUser == User(EmptyText, EmptyText, EmptyText)

-----------------------------------------------------------------------------
(* pkg/validators *)

\* The domain part of rxEmail, after the "@" and up to the end of the string:
\* labels of 1..63 characters, separated by dots, each starting and ending
\* with a letter or digit and holding only letters, digits and hyphens.
DomainMatches(d) ==
    /\ Len(d) >= 1
    /\ \A i \in 1..Len(d) : d[i] \in Alnum \cup {"-", "."}
    /\ d[1] \in Alnum
    /\ d[Len(d)] \in Alnum
    /\ \A i \in 1..Len(d) :
          d[i] = "." => /\ i > 1 /\ d[i-1] \in Alnum
                        /\ i < Len(d) /\ d[i+1] \in Alnum
    /\ \A i \in 1..(Len(d) - 63) : \E j \in i..(i+63) : d[j] = "."

\* rxEmail.MatchString: a non-empty local part, "@", the domain, anchored at
\* both ends (the local part cannot hold "@", so the "@" of a match is the
\* only one of the string).
RxEmailMatch(s) ==
    \E i \in 1..Len(s) :
        /\ s[i] = "@"
        /\ i > 1
        /\ \A j \in 1..(i-1) : s[j] \in LocalChars
        /\ DomainMatches(SubSeq(s, i+1, Len(s)))

MinEmailLen == 3
MaxEmailBytes == 254

IsEmailValid(email) ==
    ~(Len(email) < MinEmailLen \/ Len(email) > MaxEmailBytes
        \/ ~RxEmailMatch(email))

ErrEmailRequired == <<"email is required">>
ErrInvalidEmail == <<"invalid email format">>
ErrFirstRequired == <<"first name is required">>
ErrLastRequired == <<"last name is required">>
\* a nil error
Nil == << >>

\* a plausible slip: the name checks before the email format check
ValidateUserNamesFirst(user) ==
    IF user.Email = EmptyText THEN ErrEmailRequired
    ELSE IF user.FirstName = EmptyText THEN ErrFirstRequired
    ELSE IF user.LastName = EmptyText THEN ErrLastRequired
    ELSE IF ~IsEmailValid(user.Email) THEN ErrInvalidEmail
    ELSE Nil

ValidateUser(user) ==
    IF user.Email = EmptyText THEN ErrEmailRequired
    ELSE IF ~IsEmailValid(user.Email) THEN ErrInvalidEmail
    ELSE IF user.FirstName = EmptyText THEN ErrFirstRequired
    ELSE IF user.LastName = EmptyText THEN ErrLastRequired
    ELSE Nil

-----------------------------------------------------------------------------
(* encoding/json, as the handlers use it *)

\* A JSON document is a sequence of tokens; a token has a kind k and, for a
\* string or a number, its text s.
Tok(k, s) == [k |-> k, s |-> s]
P(k) == Tok(k, EmptyText)
Str(s) == Tok("str", s)
Num(s) == Tok("num", s)
JsonNull == <<P("null")>>
\* text that is no JSON at all
JsonJunk == <<P("junk")>>

RECURSIVE Flatten(_)
Flatten(ss) == IF ss = << >> THEN << >> ELSE Head(ss) \o Flatten(Tail(ss))

\* json.Marshal of a models.User: its three tagged fields, in struct order
JsonUser(u) ==
    << P("{"), Str(<<"email">>), P(":"), Str(u.Email), P(","),
       Str(<<"firstName">>), P(":"), Str(u.FirstName), P(","),
       Str(<<"lastName">>), P(":"), Str(u.LastName), P("}") >>

\* json.Marshal of a []models.User: null for a nil slice
JsonUsers(us) ==
    IF us = << >> THEN JsonNull
    ELSE <<P("[")>>
         \o Flatten([i \in 1..Len(us) |->
                IF i = 1 THEN JsonUser(us[i]) ELSE <<P(",")>> \o JsonUser(us[i])])
         \o <<P("]")>>

\* The values the handlers hand to apiResponse as body.
NilBody == [kind |-> "nil", user |-> ZeroUser, msg |-> EmptyText,
            users |-> << >>, key |-> EmptyText]
UserBody(u) == [NilBody EXCEPT !.kind = "user", !.user = u]
\* ErrorBody{ErrorMsg: StringPtr(msg)}
ErrorBody(msg) == [NilBody EXCEPT !.kind = "error", !.msg = msg]
\* map[string]interface{}{"users": users[, "lastEvaluatedKey": key]}
ListBody(us, key) == [NilBody EXCEPT !.kind = "list", !.users = us, !.key = key]

\* json.Marshal(body): nil is "null"; a map's keys are written sorted
JsonMarshal(v) ==
    CASE v.kind = "nil" -> JsonNull
      [] v.kind = "user" -> JsonUser(v.user)
      [] v.kind = "error" ->
            << P("{"), Str(<<"error">>), P(":"), Str(v.msg), P("}") >>
      [] OTHER ->
            IF v.key # EmptyText
            THEN << P("{"), Str(<<"lastEvaluatedKey">>), P(":"), Str(v.key),
                    P(","), Str(<<"users">>), P(":") >>
                 \o JsonUsers(v.users) \o <<P("}")>>
            ELSE << P("{"), Str(<<"users">>), P(":") >>
                 \o JsonUsers(v.users) \o <<P("}")>>

\* The members of a flat JSON object {k:v,k:v,...}: d[4i+2] is a key,
\* d[4i+4] its value.
IsFlatObject(d) ==
    /\ Len(d) >= 2
    /\ d[1] = P("{")
    /\ d[Len(d)] = P("}")
    /\ \/ Len(d) = 2
       \/ /\ Len(d) % 4 = 1
          /\ \A i \in 2..(Len(d) - 1) :
                CASE i % 4 = 2 -> d[i].k = "str"
                  [] i % 4 = 3 -> d[i] = P(":")
                  [] i % 4 = 0 -> d[i].k \in {"str", "num", "null"}
                  [] OTHER -> d[i] = P(",")

\* The positions of the values of member `name` in a flat object
MemberAt(d, name) ==
    {i \in 2..(Len(d) - 1) : i % 4 = 0 /\ d[i-2] = Str(name)}

\* The string decoded into the field tagged `name`: the last member of that
\* name wins, null leaves the field as it is
FieldOf(d, name) ==
    LET at == {i \in MemberAt(d, name) : d[i].k = "str"}
    IN  IF at = {} THEN EmptyText
        ELSE d[CHOOSE i \in at : \A j \in at : j <= i].s

UserFields == {<<"email">>, <<"firstName">>, <<"lastName">>}

\* json.Unmarshal([]byte(req.Body), &user): an error for text that is no JSON,
\* for a JSON value that is no object (null apart) and for a number given to
\* a string field; members under other names are ignored.
JsonUnmarshalUser(d) ==
    IF d = JsonNull THEN [ok |-> TRUE, user |-> ZeroUser]
    ELSE IF ~IsFlatObject(d) THEN [ok |-> FALSE, user |-> ZeroUser]
    ELSE IF \E f \in UserFields : \E i \in MemberAt(d, f) : d[i].k = "num"
         THEN [ok |-> FALSE, user |-> ZeroUser]
    ELSE [ok |-> TRUE,
          user |-> User(FieldOf(d, <<"email">>), FieldOf(d, <<"firstName">>),
                        FieldOf(d, <<"lastName">>))]

-----------------------------------------------------------------------------
(* strconv.Atoi *)

DigitVal(c) ==
    CASE c = "0" -> 0 [] c = "1" -> 1 [] c = "2" -> 2 [] c = "3" -> 3
      [] c = "4" -> 4 [] c = "5" -> 5 [] c = "6" -> 6 [] c = "7" -> 7
      [] c = "8" -> 8 [] OTHER -> 9

RECURSIVE DigitsValue(_)
DigitsValue(ds) ==
    IF ds = << >> THEN 0
    ELSE 10 * DigitsValue(SubSeq(ds, 1, Len(ds) - 1)) + DigitVal(ds[Len(ds)])

\* ds without its leading zeros
RECURSIVE Significant(_)
Significant(ds) ==
    IF ds # << >> /\ Head(ds) = "0" THEN Significant(Tail(ds)) ELSE ds

\* the digits of the largest int (64 bits): 9223372036854775807
MaxIntDigits ==
    <<"9","2","2","3","3","7","2","0","3","6","8","5","4","7","7","5","8","0","7">>

\* whether the digits ds, as a magnitude, exceed the largest int
OutOfRange(ds) ==
    LET sg == Significant(ds)
    IN  \/ Len(sg) > Len(MaxIntDigits)
        \/ /\ Len(sg) = Len(MaxIntDigits)
           /\ \E i \in 1..Len(sg) :
                /\ DigitVal(sg[i]) > DigitVal(MaxIntDigits[i])
                /\ \A j \in 1..(i-1) : sg[j] = MaxIntDigits[j]

\* strconv.Atoi(s): an optional sign, then one or more decimal digits, within
\* the range of int.  (The model's inputs in range are small enough for TLC's
\* integers.)
Atoi(s) ==
    LET signed == s # << >> /\ s[1] \in {"+", "-"}
        ds == IF signed THEN Tail(s) ELSE s
    IN  IF ds = << >> \/ \E i \in 1..Len(ds) : ds[i] \notin Digit
        THEN [ok |-> FALSE, n |-> 0]
        ELSE IF OutOfRange(ds) THEN [ok |-> FALSE, n |-> 0]
        ELSE [ok |-> TRUE,
              n |-> IF signed /\ s[1] = "-" THEN 0 - DigitsValue(Significant(ds))
                    ELSE DigitsValue(Significant(ds))]

-----------------------------------------------------------------------------
(* The DynamoDB table and the SDK calls the repository makes *)

\* dynamodbattribute.MarshalMap of a string field: S, or NULL for ""
AV(s) == IF s = EmptyText THEN [T |-> "NULL", V |-> EmptyText]
         ELSE [T |-> "S", V |-> s]

\* dynamodbattribute.UnmarshalMap into a string field: NULL leaves it ""
FromAV(av) == IF av.T = "S" THEN av.V ELSE EmptyText

\* a slip: a partial merge that stores only the key and the first name
MarshalMapDropsLastName(user) ==
    [email |-> AV(user.Email), firstName |-> AV(user.FirstName),
     lastName |-> AV(EmptyText)]

\* dynamodbattribute.MarshalMap(user): the attributes named by the json tags
MarshalMap(user) ==
    [email |-> AV(user.Email), firstName |-> AV(user.FirstName),
     lastName |-> AV(user.LastName)]

\* dynamodbattribute.UnmarshalMap(result.Item, item)
UnmarshalMap(item) ==
    User(FromAV(item.email), FromAV(item.firstName), FromAV(item.lastName))

\* The emails the table may hold, and the order in which a Scan of the table
\* meets them (DynamoDB's own order, here the reverse of the alphabetical).
Letters == <<"a", "b", "c", "d", "e", "f", "g", "h">>
Email(n) == <<Letters[n], "@", "x">>
E1 == Email(1)
E2 == Email(2)
ScanOrder == [i \in 1..NumEmails |-> Email(NumEmails + 1 - i)]
AllEmails == {ScanOrder[i] : i \in 1..Len(ScanOrder)}
Pos(e) == CHOOSE i \in 1..Len(ScanOrder) : ScanOrder[i] = e

NoKey == [has |-> FALSE, key |-> EmptyText]
SomeKey(e) == [has |-> TRUE, key |-> e]

\* a slip: the write made conditional on the key being absent, and the
\* failed condition not reported
PutItemIfAbsent(st, item) ==
    IF item.email.V \in DOMAIN st THEN st
    ELSE [k \in DOMAIN st \cup {item.email.V} |->
            IF k = item.email.V THEN item ELSE st[k]]

\* PutItem: the item replaces whatever the table holds under its key
PutItem(st, item) ==
    [k \in DOMAIN st \cup {item.email.V} |->
        IF k = item.email.V THEN item ELSE st[k]]

\* a slip: the key condition lost, every item deleted
DeleteItemClears(st, key) == [k \in {} |-> st[k]]

\* a slip: the delete not carried out
DeleteItemKeeps(st, key) == st

\* DeleteItem: no error when the key is absent
DeleteItem(st, key) == [k \in DOMAIN st \ {key} |-> st[k]]

\* The keys present after the start key, in scan order
RECURSIVE KeysFrom(_, _)
KeysFrom(st, i) ==
    IF i > Len(ScanOrder) THEN << >>
    ELSE IF ScanOrder[i] \in DOMAIN st
         THEN <<ScanOrder[i]>> \o KeysFrom(st, i + 1)
         ELSE KeysFrom(st, i + 1)

\* Scan with Limit and ExclusiveStartKey: DynamoDB evaluates at most Limit
\* items after the start key; when it stops because it has evaluated Limit
\* items it returns the last of them as LastEvaluatedKey, whether or not an
\* item follows; when it reaches the end of the table first, it returns none.
Scan(st, limit, start) ==
    LET rest == KeysFrom(st, IF start.has THEN Pos(start.key) + 1 ELSE 1)
        n == IF Len(rest) < limit THEN Len(rest) ELSE limit
    IN  [Items |-> [i \in 1..n |-> st[rest[i]]],
         LastEvaluatedKey |->
            IF Len(rest) >= limit THEN SomeKey(rest[n]) ELSE NoKey]

\* json.Marshal(result.LastEvaluatedKey): the key's AttributeValue with its
\* S member set and every other member null
KeyPrefix ==
    "{'email':{'B':null,'BOOL':null,'BS':null,'L':null,'M':null,'N':null,'NS':null,'NULL':null,'S':'"
KeySuffix == "','SS':null}}"
MarshalKey(k) == <<KeyPrefix>> \o k.key \o <<KeySuffix>>

\* json.Unmarshal([]byte(lastEvaluatedKey), &startKey): the text "null" is a
\* nil map, a marshalled key is that key, and text that is no JSON an error
UnmarshalKey(t) ==
    IF t = <<"null">> THEN [ok |-> TRUE, start |-> NoKey]
    ELSE IF Len(t) >= 3 /\ t[1] = KeyPrefix /\ t[Len(t)] = KeySuffix
              /\ SubSeq(t, 2, Len(t) - 1) \in AllEmails
         THEN [ok |-> TRUE, start |-> SomeKey(SubSeq(t, 2, Len(t) - 1))]
    ELSE [ok |-> FALSE, start |-> NoKey]

-----------------------------------------------------------------------------
(* pkg/repository: error texts *)

ErrorFailedToFetchRecord == <<"failed to fetch record from DynamoDB">>
ErrorCouldNotDeleteItem == <<"could not delete item">>
ErrorCouldNotDynamoPutItem == <<"could not put item into DynamoDB">>
ErrorUserAlreadyExists == <<"user already exists">>
ErrorUserDoesNotExist == <<"user does not exist">>
ErrorCouldNotScanItems == <<"could not scan items from DynamoDB">>
ErrorInvalidLastEvaluatedKey == <<"invalid last evaluated key for pagination">>

\* the error of a failed call to the store (network, throttling, permission)
TransportError == <<"RequestError">>
\* fmt.Errorf("%s: %w", msg, err)
Wrap(msg, err) == msg \o <<": ">> \o err

-----------------------------------------------------------------------------
(* pkg/handlers: responses *)

StatusOK == 200
StatusCreated == 201
StatusNoContent == 204
StatusBadRequest == 400
StatusNotFound == 404
StatusMethodNotAllowed == 405
StatusInternalServerError == 500

\* json.Marshal fails for none of the values the handlers pass
MarshalFails(v) == FALSE

apiResponse(status, body) ==
    IF MarshalFails(body)
    THEN [status |-> StatusInternalServerError,
          body |-> JsonMarshal(ErrorBody(<<"Failed to marshal response body">>))]
    ELSE [status |-> status, body |-> JsonMarshal(body)]

UnhandledMethod ==
    apiResponse(StatusMethodNotAllowed, ErrorBody(<<"Method Not Allowed">>))

-----------------------------------------------------------------------------
(* Invocations *)

\* events.APIGatewayProxyRequest: the method, the query string parameters
\* email, limit and lastEvaluatedKey ("" when missing) and the body
Req(method, email, limit, cursor, body) ==
    [method |-> method, email |-> email, limit |-> limit, cursor |-> cursor,
     body |-> body]

NoReq == Req("", EmptyText, EmptyText, EmptyText, << >>)
NoResp == [status |-> 0, body |-> << >>]

\* An invocation: where it stands (pc), its request, the handler's and the
\* repository's locals (user, key, limit, start, found), the error the
\* repository returned (err), the calls it has made to the store, in order
\* (calls), and its response.
\*   pc: "idle"                 no request yet
\*       "fetch"                GetUser, about to call FetchUser's GetItem
\*       "scan"                 GetUser, about to call FetchUsers' Scan
\*       "check"                Create/Update/DeleteUser, about to call the
\*                              existence check's GetItem
\*       "put", "delete"        about to call PutItem, DeleteItem
\*       "done"                 the response is returned
Idle ==
    [pc |-> "idle", req |-> NoReq, user |-> ZeroUser, key |-> EmptyText,
     limit |-> 0, start |-> NoKey, found |-> FALSE, err |-> Nil,
     calls |-> << >>, resp |-> NoResp]

Begin(req) == [Idle EXCEPT !.req = req]

\* a call to the store and whether the store answered it (ok) or the call
\* failed in transport
Call(op, ok) == [op |-> op, ok |-> ok]

\* return apiResponse(status, body)
Return(i, status, body) ==
    [i EXCEPT !.pc = "done", !.resp = apiResponse(status, body)]

DefaultLimit == 10

\* a slip: the sign test dropped, so that zero and negatives are passed on
ParseLimitAnyInt(limitStr) ==
    IF limitStr # EmptyText /\ Atoi(limitStr).ok
    THEN Atoi(limitStr).n
    ELSE DefaultLimit

\* GetUser: limit := 10; if limitStr != "" and Atoi succeeds with l > 0,
\* limit = l
ParseLimit(limitStr) ==
    IF limitStr # EmptyText /\ Atoi(limitStr).ok /\ Atoi(limitStr).n > 0
    THEN Atoi(limitStr).n
    ELSE DefaultLimit

\* GetUser, up to its first call to the store.  With an email it is about to
\* fetch that user; without, FetchUsers decodes the cursor and is about to
\* scan, or fails on a cursor that is no JSON.
GetUser(req) ==
    IF req.email # EmptyText
    THEN [Begin(req) EXCEPT !.pc = "fetch", !.key = req.email]
    ELSE LET limit == ParseLimit(req.limit)
             k == IF req.cursor # EmptyText THEN UnmarshalKey(req.cursor)
                  ELSE [ok |-> TRUE, start |-> NoKey]
         IN  IF ~k.ok
             THEN Return([Begin(req) EXCEPT !.limit = limit,
                             !.err = ErrorInvalidLastEvaluatedKey],
                         StatusBadRequest,
                         ErrorBody(ErrorInvalidLastEvaluatedKey))
             ELSE [Begin(req) EXCEPT !.pc = "scan", !.limit = limit,
                      !.start = k.start]

\* a slip: the record not validated before it is handed to the repository
CreateUserUnvalidated(req) ==
    LET parsed == JsonUnmarshalUser(req.body)
    IN  IF ~parsed.ok
        THEN Return(Begin(req), StatusBadRequest,
                    ErrorBody(<<"Invalid request body">>))
        ELSE [Begin(req) EXCEPT !.pc = "check", !.user = parsed.user,
                 !.key = parsed.user.Email]

\* a slip: only the email looked at before the repository is called
UpdateUserEmailOnly(req) ==
    LET parsed == JsonUnmarshalUser(req.body)
    IN  IF ~parsed.ok
        THEN Return(Begin(req), StatusBadRequest,
                    ErrorBody(<<"Invalid request body">>))
        ELSE IF parsed.user.Email = EmptyText
        THEN Return(Begin(req), StatusBadRequest,
                    ErrorBody(<<"Email is required for user update">>))
        ELSE [Begin(req) EXCEPT !.pc = "check", !.user = parsed.user,
                 !.key = parsed.user.Email]

\* CreateUser, up to the repository's existence check
CreateUser(req) ==
    LET parsed == JsonUnmarshalUser(req.body)
    IN  IF ~parsed.ok
        THEN Return(Begin(req), StatusBadRequest,
                    ErrorBody(<<"Invalid request body">>))
        ELSE IF ValidateUser(parsed.user) # Nil
        THEN Return(Begin(req), StatusBadRequest,
                    ErrorBody(ValidateUser(parsed.user)))
        ELSE [Begin(req) EXCEPT !.pc = "check", !.user = parsed.user,
                 !.key = parsed.user.Email]

\* UpdateUser, up to the repository's existence check
UpdateUser(req) ==
    LET parsed == JsonUnmarshalUser(req.body)
    IN  IF ~parsed.ok
        THEN Return(Begin(req), StatusBadRequest,
                    ErrorBody(<<"Invalid request body">>))
        ELSE IF parsed.user.Email = EmptyText
        THEN Return(Begin(req), StatusBadRequest,
                    ErrorBody(<<"Email is required for user update">>))
        ELSE IF ValidateUser(parsed.user) # Nil
        THEN Return(Begin(req), StatusBadRequest,
                    ErrorBody(ValidateUser(parsed.user)))
        ELSE [Begin(req) EXCEPT !.pc = "check", !.user = parsed.user,
                 !.key = parsed.user.Email]

\* DeleteUser, up to the repository's existence check
DeleteUser(req) ==
    IF req.email = EmptyText
    THEN Return(Begin(req), StatusBadRequest,
                ErrorBody(<<"Email query parameter is required for deletion">>))
    ELSE [Begin(req) EXCEPT !.pc = "check", !.key = req.email]

\* cmd/main.go handler: the switch on req.HTTPMethod
handler(req) ==
    CASE req.method = "GET" -> GetUser(req)
      [] req.method = "POST" -> CreateUser(req)
      [] req.method = "PUT" -> UpdateUser(req)
      [] req.method = "DELETE" -> DeleteUser(req)
      [] OTHER -> [Begin(req) EXCEPT !.pc = "done", !.resp = UnhandledMethod]

\* repository.FetchUser(email) on table st; ok says whether GetItem succeeded.
\* (Every item of the table was written by MarshalMap, so UnmarshalMap does
\* not fail.)
FetchUser(st, email, ok) ==
    IF ~ok
    THEN [err |-> Wrap(ErrorFailedToFetchRecord, TransportError),
          found |-> FALSE, user |-> ZeroUser]
    ELSE IF email \notin DOMAIN st
    THEN [err |-> Nil, found |-> FALSE, user |-> ZeroUser]
    ELSE [err |-> Nil, found |-> TRUE, user |-> UnmarshalMap(st[email])]

\* GetUser, from FetchUser's return on
GetUserFetched(i, st, ok) ==
    LET r == FetchUser(st, i.key, ok)
        j == [i EXCEPT !.calls = Append(@, Call("GetItem", ok)), !.found = r.found,
                       !.err = r.err]
    IN  IF r.err # Nil THEN Return(j, StatusBadRequest, ErrorBody(r.err))
        ELSE IF ~r.found
        THEN Return(j, StatusNotFound, ErrorBody(<<"User not found">>))
        ELSE Return(j, StatusOK, UserBody(r.user))

\* a slip: the LastEvaluatedKey of the scan not handed back to the caller
GetUserScannedNoCursor(i, st, ok) ==
    LET j == [i EXCEPT !.calls = Append(@, Call("Scan", ok))]
    IN  IF ~ok \/ i.limit < 1
        THEN Return([j EXCEPT !.err = Wrap(ErrorCouldNotScanItems, TransportError)],
                    StatusBadRequest,
                    ErrorBody(Wrap(ErrorCouldNotScanItems, TransportError)))
        ELSE LET result == Scan(st, i.limit, i.start)
                 users == [n \in 1..Len(result.Items) |->
                              UnmarshalMap(result.Items[n])]
             IN  Return(j, StatusOK, ListBody(users, EmptyText))

\* GetUser, from FetchUsers' Scan on.  The SDK rejects a Limit below 1.
GetUserScanned(i, st, ok) ==
    LET j == [i EXCEPT !.calls = Append(@, Call("Scan", ok))]
    IN  IF ~ok \/ i.limit < 1
        THEN Return([j EXCEPT !.err = Wrap(ErrorCouldNotScanItems, TransportError)],
                    StatusBadRequest,
                    ErrorBody(Wrap(ErrorCouldNotScanItems, TransportError)))
        ELSE LET result == Scan(st, i.limit, i.start)
                 users == [n \in 1..Len(result.Items) |->
                              UnmarshalMap(result.Items[n])]
                 newLastEvaluatedKey ==
                     IF result.LastEvaluatedKey.has
                     THEN MarshalKey(result.LastEvaluatedKey)
                     ELSE EmptyText
             IN  Return(j, StatusOK, ListBody(users, newLastEvaluatedKey))

\* CreateUser's answer to an error of the repository: always 400
CreateUserFailed(i, err) ==
    Return([i EXCEPT !.err = err], StatusBadRequest, ErrorBody(err))

\* UpdateUser's answer to an error of the repository: 404 for "user does not
\* exist", 400 for the others
UpdateUserFailed(i, err) ==
    IF err = ErrorUserDoesNotExist
    THEN Return([i EXCEPT !.err = err], StatusNotFound,
                ErrorBody(<<"User not found for update">>))
    ELSE Return([i EXCEPT !.err = err], StatusBadRequest, ErrorBody(err))

\* a slip: the comparison with ErrorUserDoesNotExist lost, every error 400
DeleteUserFailedNo404(i, err) ==
    Return([i EXCEPT !.err = err], StatusBadRequest, ErrorBody(err))

\* DeleteUser's answer to an error of the repository
DeleteUserFailed(i, err) ==
    IF err = ErrorUserDoesNotExist
    THEN Return([i EXCEPT !.err = err], StatusNotFound,
                ErrorBody(<<"User not found for deletion">>))
    ELSE Return([i EXCEPT !.err = err], StatusBadRequest, ErrorBody(err))

\* a slip: the existence check's answer ignored, the write made regardless
CreateUserCheckedOverwrites(i, st, ok) ==
    LET r == FetchUser(st, i.key, ok)
        j == [i EXCEPT !.calls = Append(@, Call("GetItem", ok)), !.found = r.found]
    IN  IF r.err # Nil THEN CreateUserFailed(j, r.err)
        ELSE [j EXCEPT !.pc = "put"]

\* repository.CreateUser, from its existence check to its PutItem
CreateUserChecked(i, st, ok) ==
    LET r == FetchUser(st, i.key, ok)
        j == [i EXCEPT !.calls = Append(@, Call("GetItem", ok)), !.found = r.found]
    IN  IF r.err # Nil THEN CreateUserFailed(j, r.err)
        ELSE IF r.found THEN CreateUserFailed(j, ErrorUserAlreadyExists)
        ELSE [j EXCEPT !.pc = "put"]

\* a slip: an upsert, the update written although no record was found
UpdateUserCheckedUpserts(i, st, ok) ==
    LET r == FetchUser(st, i.key, ok)
        j == [i EXCEPT !.calls = Append(@, Call("GetItem", ok)), !.found = r.found]
    IN  IF r.err # Nil THEN UpdateUserFailed(j, r.err)
        ELSE [j EXCEPT !.pc = "put"]

\* repository.UpdateUser, from its existence check to its PutItem
UpdateUserChecked(i, st, ok) ==
    LET r == FetchUser(st, i.key, ok)
        j == [i EXCEPT !.calls = Append(@, Call("GetItem", ok)), !.found = r.found]
    IN  IF r.err # Nil THEN UpdateUserFailed(j, r.err)
        ELSE IF ~r.found THEN UpdateUserFailed(j, ErrorUserDoesNotExist)
        ELSE [j EXCEPT !.pc = "put"]

\* a slip: the existence check's answer ignored, the delete made regardless
DeleteUserCheckedAnyway(i, st, ok) ==
    LET r == FetchUser(st, i.key, ok)
        j == [i EXCEPT !.calls = Append(@, Call("GetItem", ok)), !.found = r.found]
    IN  IF r.err # Nil THEN DeleteUserFailed(j, r.err)
        ELSE [j EXCEPT !.pc = "delete"]

\* repository.DeleteUser, from its existence check to its DeleteItem
DeleteUserChecked(i, st, ok) ==
    LET r == FetchUser(st, i.key, ok)
        j == [i EXCEPT !.calls = Append(@, Call("GetItem", ok)), !.found = r.found]
    IN  IF r.err # Nil THEN DeleteUserFailed(j, r.err)
        ELSE IF ~r.found THEN DeleteUserFailed(j, ErrorUserDoesNotExist)
        ELSE [j EXCEPT !.pc = "delete"]

\* CreateUser and UpdateUser, from PutItem's return on
UserPut(i, ok) ==
    LET j == [i EXCEPT !.calls = Append(@, Call("PutItem", ok))]
        err == Wrap(ErrorCouldNotDynamoPutItem, TransportError)
    IN  IF i.req.method = "POST"
        THEN IF ~ok THEN CreateUserFailed(j, err)
             ELSE Return(j, StatusCreated, UserBody(i.user))
        ELSE IF ~ok THEN UpdateUserFailed(j, err)
             ELSE Return(j, StatusOK, UserBody(i.user))

\* DeleteUser, from DeleteItem's return on
UserDeleted(i, ok) ==
    LET j == [i EXCEPT !.calls = Append(@, Call("DeleteItem", ok))]
    IN  IF ~ok
        THEN DeleteUserFailed(j, Wrap(ErrorCouldNotDeleteItem, TransportError))
        ELSE Return(j, StatusNoContent, NilBody)

-----------------------------------------------------------------------------
(* The requests of the model *)

Invocations == 1..NumInvocations

NameA == <<"A">>
NameB == <<"B">>
Names == {NameA, NameB}
\* an email that fails the grammar
BadEmail == <<"x">>

JsonMissingEmail ==
    << P("{"), Str(<<"firstName">>), P(":"), Str(NameA), P(","),
       Str(<<"lastName">>), P(":"), Str(NameB), P("}") >>

\* The bodies of the POST and PUT requests: two records for each of two
\* emails, differing in both names; text that is no JSON; an object without
\* email; a record that fails validation.
ValidUsers == {User(e, n[1], n[2]) : e \in {E1, E2}, n \in {<<NameA, NameB>>, <<NameB, NameA>>}}
Bodies ==
    {JsonJunk, JsonMissingEmail, JsonUser(User(BadEmail, NameA, NameB))}
    \cup {JsonUser(u) : u \in ValidUsers}

JunkCursor == <<"junk">>

Requests ==
    {Req("GET", e, EmptyText, EmptyText, << >>) : e \in {E1, E2}}
    \cup {Req("GET", EmptyText, EmptyText, c, << >>) : c \in {EmptyText, JunkCursor}}
    \cup {Req(m, EmptyText, EmptyText, EmptyText, b) : m \in {"POST", "PUT"}, b \in Bodies}
    \cup {Req("DELETE", e, EmptyText, EmptyText, << >>) : e \in {EmptyText, E1, E2}}
    \cup {Req("PATCH", EmptyText, EmptyText, EmptyText, << >>)}

\* handler(req) for each request of the model
Handled == [req \in Requests |-> handler(req)]

-----------------------------------------------------------------------------
(* The system: concurrent invocations over one table *)

EmptyTable == [k \in {} |-> MarshalMap(ZeroUser)]

NoValidation == <<"(not validated)">>
NoClient == [limit |-> EmptyText, cursor |-> EmptyText, seen |-> << >>,
             pages |-> << >>, open |-> FALSE]

Init ==
    /\ store = EmptyTable
    /\ inv = [p \in Invocations |-> Idle]
    /\ vUser = ZeroUser
    /\ vErr = NoValidation
    /\ client = NoClient

\* A request arrives and the handler runs up to its first call to the store
Invoke(p) ==
    /\ inv[p].pc \in {"idle", "done"}
    /\ \E req \in Requests : inv' = [inv EXCEPT ![p] = Handled[req]]
    /\ UNCHANGED <<store, vUser, vErr, client>>

\* The store answers a GetItem, and the invocation runs on to its next call
GetItemCall(p) ==
    /\ inv[p].pc \in {"fetch", "check"}
    /\ \E ok \in BOOLEAN :
          inv' = [inv EXCEPT ![p] =
                    CASE inv[p].pc = "fetch" -> GetUserFetched(inv[p], store, ok)
                      [] inv[p].req.method = "POST" -> CreateUserChecked(inv[p], store, ok)
                      [] inv[p].req.method = "PUT" -> UpdateUserChecked(inv[p], store, ok)
                      [] OTHER -> DeleteUserChecked(inv[p], store, ok)]
    /\ UNCHANGED <<store, vUser, vErr, client>>

\* The store answers a PutItem
PutItemCall(p) ==
    /\ inv[p].pc = "put"
    /\ \E ok \in BOOLEAN :
          /\ inv' = [inv EXCEPT ![p] = UserPut(inv[p], ok)]
          /\ store' = IF ok THEN PutItem(store, MarshalMap(inv[p].user)) ELSE store
    /\ UNCHANGED <<vUser, vErr, client>>

\* The store answers a DeleteItem
DeleteItemCall(p) ==
    /\ inv[p].pc = "delete"
    /\ \E ok \in BOOLEAN :
          /\ inv' = [inv EXCEPT ![p] = UserDeleted(inv[p], ok)]
          /\ store' = IF ok THEN DeleteItem(store, inv[p].key) ELSE store
    /\ UNCHANGED <<vUser, vErr, client>>

\* The store answers a Scan
ScanCall(p) ==
    /\ inv[p].pc = "scan"
    /\ \E ok \in BOOLEAN :
          inv' = [inv EXCEPT ![p] = GetUserScanned(inv[p], store, ok)]
    /\ UNCHANGED <<store, vUser, vErr, client>>

Next ==
    \E p \in Invocations :
        \/ Invoke(p)
        \/ GetItemCall(p)
        \/ PutItemCall(p)
        \/ DeleteItemCall(p)
        \/ ScanCall(p)

Spec == Init /\ [][Next]_vars

-----------------------------------------------------------------------------
(* The same system under requests of every kind the handlers turn away *)

\* an object whose email is a number
JsonNumberEmail ==
    << P("{"), Str(<<"email">>), P(":"), Num(<<"1">>), P(","),
       Str(<<"firstName">>), P(":"), Str(NameA), P(","),
       Str(<<"lastName">>), P(":"), Str(NameB), P("}") >>

JsonEmptyObject == << P("{"), P("}") >>

\* Besides the bodies above: the text null, the empty object, an object with
\* a number for email, and records with an empty email, an empty first name
\* and an empty last name
BoundaryBodies ==
    Bodies
    \cup {JsonNull, JsonEmptyObject, JsonNumberEmail,
          JsonUser(User(EmptyText, NameA, NameB)),
          JsonUser(User(E1, EmptyText, NameB)),
          JsonUser(User(E1, NameB, EmptyText))}

BoundaryRequests ==
    {Req("GET", E1, EmptyText, EmptyText, << >>)}
    \cup {Req(m, EmptyText, EmptyText, EmptyText, b) :
             m \in {"POST", "PUT"}, b \in BoundaryBodies}
    \cup {Req("DELETE", e, EmptyText, EmptyText, << >>) : e \in {EmptyText, E1, E2}}
    \cup {Req(m, E1, EmptyText, EmptyText, JsonUser(User(E1, NameA, NameB))) :
             m \in {"PATCH", "OPTIONS"}}

HandledBoundary == [req \in BoundaryRequests |-> handler(req)]

InvokeBoundary(p) ==
    /\ inv[p].pc \in {"idle", "done"}
    /\ \E req \in BoundaryRequests : inv' = [inv EXCEPT ![p] = HandledBoundary[req]]
    /\ UNCHANGED <<store, vUser, vErr, client>>

NextBoundary ==
    \E p \in Invocations :
        \/ InvokeBoundary(p)
        \/ GetItemCall(p)
        \/ PutItemCall(p)
        \/ DeleteItemCall(p)

SpecBoundary == Init /\ [][NextBoundary]_vars

-----------------------------------------------------------------------------
(* ValidateUser on its own *)

\* The characters of the short emails: a letter, the "@", the dot and the
\* hyphen (which the domain admits only inside a label) and the space (which
\* the grammar admits nowhere)
VChars == {"a", "@", ".", "-", " "}

ShortEmails == UNION {[1..k -> VChars] : k \in 0..MaxEmailLen}

\* Emails at the length bounds: 254 and 255 characters, a domain label of 63
\* and of 64 characters; and the examples of malformed emails
LongEmails ==
    { Rep("a", 252) \o <<"@", "b">>,
      Rep("a", 253) \o <<"@", "b">>,
      <<"a", "@">> \o Rep("b", 63),
      <<"a", "@">> \o Rep("b", 64),
      <<"a", "@">> \o Rep("b", 63) \o <<".">> \o Rep("c", 63),
      <<"a", "!", "@", "b">>,
      <<"a", "@", "b", "!">>,
      <<"n","o","t","-","a","n","-","e","m","a","i","l">>,
      <<"a", "@", "b", ".", "c", "o", "m">> }

ValidateInputs ==
    {User(e, f, l) : e \in ShortEmails \cup LongEmails,
                     f \in {EmptyText, NameA}, l \in {EmptyText, NameB}}

InitValidate ==
    /\ store = EmptyTable
    /\ inv = [p \in Invocations |-> Idle]
    /\ vUser \in ValidateInputs
    /\ vErr = NoValidation
    /\ client = NoClient

\* err := validators.ValidateUser(user)
Validate ==
    /\ vErr = NoValidation
    /\ vErr' = ValidateUser(vUser)
    /\ UNCHANGED <<store, inv, vUser, client>>

NextValidate == Validate

SpecValidate == InitValidate /\ [][NextValidate]_vars

-----------------------------------------------------------------------------
(* A client that lists the table page by page *)

\* The limit parameters of the listings
LimitStrs ==
    { EmptyText, <<"1">>, <<"2">>, <<"3">>, <<"0">>, <<"-", "1">>, <<"+", "2">>,
      <<"0", "2">>, <<"x">>, <<"2", "x">>, <<"+">>, <<"1", ".", "0">>, <<" ", "1">>,
      Rep("9", 20) }

\* The tables listed: any set of the emails, one record each
TableOf(S) == [e \in S |-> MarshalMap(User(e, NameA, NameB))]
ListStores == {TableOf(S) : S \in SUBSET AllEmails}

\* the cursor of a paged list response, "" when it has none
CursorOf(body) ==
    IF body[2] = Str(<<"lastEvaluatedKey">>) THEN body[4].s ELSE EmptyText

\* the records of a paged list response
UsersOf(body) ==
    LET at == {i \in 1..Len(body) : body[i] = P("[")}
    IN  IF at = {} THEN << >>
        ELSE LET a == CHOOSE i \in at : TRUE
                 n == (Len(body) - 1 - a) \div 14
             IN  [k \in 1..n |->
                    JsonUnmarshalUser(
                        SubSeq(body, a + 14 * (k - 1) + 1,
                                     a + 14 * (k - 1) + 13)).user]

InitList ==
    /\ store \in ListStores
    /\ inv = [p \in Invocations |-> Idle]
    /\ vUser = ZeroUser
    /\ vErr = NoValidation
    /\ client \in {[NoClient EXCEPT !.limit = l, !.open = TRUE] : l \in LimitStrs}

\* The client asks for the next page: a GET without email, with its limit
\* and the cursor of the previous page
ClientRequest ==
    /\ client.open
    /\ inv[1].pc = "idle"
    /\ inv' = [inv EXCEPT ![1] =
                handler(Req("GET", EmptyText, client.limit, client.cursor, << >>))]
    /\ UNCHANGED <<store, vUser, vErr, client>>

\* The client takes the response: the page's records and its cursor; the
\* listing is over with the first page that has no cursor.  After a failure
\* it asks again.
ClientReceive ==
    /\ inv[1].pc = "done"
    /\ inv' = [inv EXCEPT ![1] = Idle]
    /\ client' =
          IF inv[1].resp.status # StatusOK THEN client
          ELSE [client EXCEPT
                  !.cursor = CursorOf(inv[1].resp.body),
                  !.seen = @ \o UsersOf(inv[1].resp.body),
                  !.pages = Append(@, [n |-> Len(UsersOf(inv[1].resp.body)),
                                       cursor |-> CursorOf(inv[1].resp.body)]),
                  !.open = CursorOf(inv[1].resp.body) # EmptyText]
    /\ UNCHANGED <<store, vUser, vErr>>

NextList ==
    \/ ClientRequest
    \/ \E p \in Invocations : ScanCall(p)
    \/ ClientReceive

SpecList == InitList /\ [][NextList]_vars

-----------------------------------------------------------------------------
(* Vocabulary of the properties *)

\* the wire form of an error response: {"error": msg}
ErrorJson(msg) == << P("{"), Str(<<"error">>), P(":"), Str(msg), P("}") >>

\* the store answered the invocation's latest call (no transport failure)
Answered(i) == i.calls # << >> /\ i.calls[Len(i.calls)].ok

\* the operations invocation i has asked of the store, in order
Ops(i) == [n \in 1..Len(i.calls) |-> i.calls[n].op]

\* in this step invocation p, serving method m, gets the answer to its
\* existence check
CheckStep(p, m) ==
    /\ inv[p].pc = "check"
    /\ inv[p].req.method = m
    /\ inv'[p].pc # "check"

\* in this step invocation p gets the answer to its PutItem / DeleteItem
WriteStep(p, m) ==
    /\ inv[p].pc \in {"put", "delete"}
    /\ inv[p].req.method = m
    /\ inv'[p].pc = "done"

\* in this step invocation p receives a request
InvokeStep(p) ==
    /\ inv[p].pc \in {"idle", "done"}
    /\ inv'[p] # inv[p]

\* A record leaves the table only by the DeleteItem of a DELETE invocation
\* addressed to its email.
RemovedOnlyByDelete ==
    \A e \in DOMAIN store :
        e \notin DOMAIN store' =>
            \E p \in Invocations :
                WriteStep(p, "DELETE") /\ inv[p].key = e /\ Answered(inv'[p])

-----------------------------------------------------------------------------
(* C1 *)

\* C1: a create on an email that has a stored record, once the store has
\* answered its existence check, fails with "user already exists", which the
\* POST handler answers 400 with that message; it asks no write of the store
\* and the table is left as it was.  A successful create leaves a record
\* under its email and a record leaves the table only by a delete, so a
\* second create of the same email, with no delete in between, fails.
C1_CreateOnExisting ==
    \A p \in Invocations :
        (CheckStep(p, "POST") /\ inv[p].key \in DOMAIN store /\ Answered(inv'[p]))
        => /\ inv'[p].pc = "done"
           /\ inv'[p].err = ErrorUserAlreadyExists
           /\ inv'[p].resp = [status |-> 400,
                              body |-> ErrorJson(<<"user already exists">>)]
           /\ Ops(inv'[p]) = <<"GetItem">>
           /\ store' = store

C1_CreateLeavesRecord ==
    \A p \in Invocations :
        (WriteStep(p, "POST") /\ inv'[p].resp.status = 201)
        => inv[p].key \in DOMAIN store'

C1_CreateTwiceFails ==
    /\ [][C1_CreateOnExisting]_vars
    /\ [][C1_CreateLeavesRecord]_vars
    /\ [][RemovedOnlyByDelete]_vars

\* C1's case: a create has been refused for an email whose record, made by an
\* earlier create of the other invocation, is still in the table
C1_Witness ==
    \E p, q \in Invocations :
        /\ inv[p].pc = "done" /\ inv[p].req.method = "POST"
        /\ inv[p].err = ErrorUserAlreadyExists
        /\ inv[q].pc = "done" /\ inv[q].req.method = "POST"
        /\ inv[q].resp.status = 201
        /\ inv[q].key = inv[p].key
        /\ inv[p].key \in DOMAIN store

-----------------------------------------------------------------------------
(* C2 *)

\* C2: an update or a delete on an email that has no stored record, once the
\* store has answered its existence check, fails with "user does not exist",
\* which the PUT and DELETE handlers answer 404; the invocation asks no write
\* of the store, and neither receiving the request nor the check changes the
\* table.
C2_AbsentCheck ==
    \A p \in Invocations :
        \A m \in {"PUT", "DELETE"} :
            (CheckStep(p, m) /\ inv[p].key \notin DOMAIN store /\ Answered(inv'[p]))
            => /\ inv'[p].pc = "done"
               /\ inv'[p].err = <<"user does not exist">>
               /\ inv'[p].resp =
                    [status |-> 404,
                     body |-> ErrorJson(IF m = "PUT"
                                        THEN <<"User not found for update">>
                                        ELSE <<"User not found for deletion">>)]
               /\ Ops(inv'[p]) = <<"GetItem">>
               /\ store' = store

C2_NoStoreChangeBeforeWrite ==
    \A p \in Invocations :
        (InvokeStep(p) \/ (inv[p].pc = "check" /\ inv'[p] # inv[p])) => store' = store

C2_UpdateDeleteOnAbsent ==
    /\ [][C2_AbsentCheck]_vars
    /\ [][C2_NoStoreChangeBeforeWrite]_vars

\* C2's case: an update and a delete have both been answered 404
C2_Witness ==
    \E p, q \in Invocations :
        /\ inv[p].pc = "done" /\ inv[p].req.method = "PUT"
        /\ inv[p].resp.status = 404
        /\ inv[q].pc = "done" /\ inv[q].req.method = "DELETE"
        /\ inv[q].resp.status = 404
        /\ inv[p].key \notin DOMAIN store
        /\ inv[q].key \notin DOMAIN store

-----------------------------------------------------------------------------
(* C3 *)

\* in this step the PutItem of an update (PUT) invocation p takes effect
UpdateWrites(p) == WriteStep(p, "PUT") /\ Answered(inv'[p])

\* C3 as stated: in every execution, interleavings of concurrent invocations
\* on the same email included, the write of an update replaces a record that
\* is in the table at that moment.
C3_UpdateWritesOnPresent ==
    \A p \in Invocations : UpdateWrites(p) => inv[p].key \in DOMAIN store

C3_NoUpsertInAnyInterleaving == [][C3_UpdateWritesOnPresent]_vars

\* C3, amended: the write of an update is asked only after the update's own
\* existence check found a record, and an update whose check finds none
\* writes nothing; a record leaves the table only by a delete.  So the write
\* of an update replaces a present record unless a concurrent delete removed
\* it between the update's check and its write.
C3_CheckDecides ==
    \A p \in Invocations :
        (CheckStep(p, "PUT") /\ Answered(inv'[p]))
        => /\ (inv[p].key \in DOMAIN store
                => inv'[p].pc = "put" /\ inv'[p].found)
           /\ (inv[p].key \notin DOMAIN store
                => inv'[p].pc = "done" /\ Ops(inv'[p]) = <<"GetItem">>)

C3_WriteAfterFound ==
    \A p \in Invocations :
        UpdateWrites(p)
        => /\ inv[p].found
           /\ Ops(inv'[p]) = <<"GetItem", "PutItem">>
           /\ inv[p].calls[1].ok

C3_NoUpsertUnlessRaced ==
    /\ [][C3_CheckDecides]_vars
    /\ [][C3_WriteAfterFound]_vars
    /\ [][RemovedOnlyByDelete]_vars

\* C3's case: an update has passed its existence check and written
C3_Witness ==
    \E p \in Invocations :
        /\ inv[p].pc = "done" /\ inv[p].req.method = "PUT"
        /\ inv[p].resp.status = 200
        /\ inv[p].found
        /\ inv[p].key \in DOMAIN store

-----------------------------------------------------------------------------
(* C4 *)

\* the record a valid request body denotes
RecordOf(body) == CHOOSE u \in ValidUsers : JsonUser(u) = body

\* the item that holds record r: its three fields as string attributes
ItemOf(r) ==
    [email |-> [T |-> "S", V |-> r.Email],
     firstName |-> [T |-> "S", V |-> r.FirstName],
     lastName |-> [T |-> "S", V |-> r.LastName]]

\* in this step a GET by email of invocation p gets its answer from the store
FetchStep(p) ==
    /\ inv[p].pc = "fetch"
    /\ inv'[p].pc = "done"
    /\ Answered(inv'[p])

\* A successful create or update of r leaves under r.email exactly the three
\* fields of r, whatever was stored before.
C4_WriteStoresRecord ==
    \A p \in Invocations :
        \A m \in {"POST", "PUT"} :
            (WriteStep(p, m) /\ inv'[p].resp.status \in {200, 201})
            => LET r == RecordOf(inv[p].req.body)
               IN  /\ r.Email \in DOMAIN store'
                   /\ store'[r.Email] = ItemOf(r)
                   /\ inv'[p].resp.body = inv[p].req.body

\* fetchOne of an email returns the record stored under it, field by field
C4_FetchReturnsStored ==
    \A p \in Invocations :
        \A r \in ValidUsers :
            (FetchStep(p) /\ inv[p].key = r.Email /\ r.Email \in DOMAIN store
                /\ store[r.Email] = ItemOf(r))
            => /\ inv'[p].resp.status = 200
               /\ JsonUnmarshalUser(inv'[p].resp.body) = [ok |-> TRUE, user |-> r]

\* What the table holds under an email changes only by the answered PutItem
\* or DeleteItem of an invocation addressed to that email.
C4_ChangedOnlyByWrite ==
    \A e \in DOMAIN store \cup DOMAIN store' :
        (e \notin DOMAIN store \/ e \notin DOMAIN store' \/ store'[e] # store[e])
        => \E p \in Invocations :
              /\ inv[p].pc \in {"put", "delete"}
              /\ inv'[p].pc = "done"
              /\ Answered(inv'[p])
              /\ inv[p].key = e

\* C4: after a successful create(r) or update(r), and until the next write or
\* delete on r.email, a fetchOne(r.email) that the store answers returns a
\* record equal to r in all three fields; an update replaces every field.
C4_ReadYourWrite ==
    /\ [][C4_WriteStoresRecord]_vars
    /\ [][C4_FetchReturnsStored]_vars
    /\ [][C4_ChangedOnlyByWrite]_vars

\* C4's case: an update has replaced both names of a stored record and a
\* later fetch has returned the update's record
C4_Witness ==
    \E p, q \in Invocations :
        /\ inv[p].pc = "done" /\ inv[p].req.method = "PUT"
        /\ inv[p].resp.status = 200
        /\ inv[q].pc = "done" /\ inv[q].req.method = "GET"
        /\ inv[q].resp.status = 200
        /\ inv[q].key = inv[p].key
        /\ inv[q].resp.body = inv[p].req.body
        /\ inv[p].user = User(E1, NameB, NameA)
        /\ store[E1] = ItemOf(User(E1, NameB, NameA))

-----------------------------------------------------------------------------
(* C5 *)

\* A delete of a stored record, once the store has answered both of its
\* calls, answers 204 and the record is gone.
C5_DeleteRemoves ==
    \A p \in Invocations :
        /\ (CheckStep(p, "DELETE") /\ Answered(inv'[p]) /\ inv[p].key \in DOMAIN store)
            => inv'[p].pc = "delete"
        /\ (WriteStep(p, "DELETE") /\ Answered(inv'[p]))
            => /\ inv'[p].resp.status = 204
               /\ inv[p].key \notin DOMAIN store'

\* While no record is stored for an email, a GET for it that the store
\* answers is answered 404.
C5_GetAbsent ==
    \A p \in Invocations :
        (FetchStep(p) /\ inv[p].key \notin DOMAIN store)
        => inv'[p].resp = [status |-> 404, body |-> ErrorJson(<<"User not found">>)]

\* in this step a record appears under email e by the write of an invocation
\* serving method m
AppearsBy(e, m) ==
    /\ e \notin DOMAIN store
    /\ e \in DOMAIN store'
    /\ \E p \in Invocations : WriteStep(p, m) /\ inv[p].key = e

\* C5 as stated: after the delete the email has no record, and GET answers
\* 404, until a later successful create: a record appears only by a create.
C5_AppearsOnlyByCreate ==
    \A e \in AllEmails :
        (e \notin DOMAIN store /\ e \in DOMAIN store') => AppearsBy(e, "POST")

C5_GoneUntilCreate ==
    /\ [][C5_DeleteRemoves]_vars
    /\ [][C5_GetAbsent]_vars
    /\ [][C5_AppearsOnlyByCreate]_vars

\* C5, amended: ... until a later successful create, or until the write of
\* an update that had passed its existence check before the delete.
C5_AppearsByCreateOrRacedUpdate ==
    \A e \in AllEmails :
        (e \notin DOMAIN store /\ e \in DOMAIN store')
        => \/ AppearsBy(e, "POST")
           \/ /\ AppearsBy(e, "PUT")
              /\ \E p \in Invocations :
                    WriteStep(p, "PUT") /\ inv[p].key = e /\ inv[p].found

C5_GoneUntilCreateOrRacedUpdate ==
    /\ [][C5_DeleteRemoves]_vars
    /\ [][C5_GetAbsent]_vars
    /\ [][C5_AppearsByCreateOrRacedUpdate]_vars
    /\ [][RemovedOnlyByDelete]_vars

\* C5's case: a delete has been answered 204 and a GET for the same email,
\* with the record gone, 404
C5_Witness ==
    \E p, q \in Invocations :
        /\ inv[p].pc = "done" /\ inv[p].req.method = "DELETE"
        /\ inv[p].resp.status = 204
        /\ inv[q].pc = "done" /\ inv[q].req.method = "GET"
        /\ inv[q].resp.status = 404
        /\ inv[q].key = inv[p].key
        /\ inv[p].key \notin DOMAIN store

-----------------------------------------------------------------------------
(* C7 *)

\* the handler turned the request away before any call to the repository:
\* a body that is no JSON record, a record that fails validation, a DELETE
\* without email
Rejected(i) ==
    CASE i.req.method \in {"POST", "PUT"} ->
            \/ ~JsonUnmarshalUser(i.req.body).ok
            \/ ValidateUser(JsonUnmarshalUser(i.req.body).user) # Nil
      [] i.req.method = "DELETE" -> i.req.email = EmptyText
      [] OTHER -> FALSE

\* the addressed record is absent: a GET by email found nothing, or the
\* repository reported "user does not exist" to an update or a delete
AddressedAbsent(i) ==
    \/ /\ i.req.method = "GET" /\ i.req.email # EmptyText
       /\ Answered(i) /\ ~i.found
    \/ /\ i.req.method \in {"PUT", "DELETE"}
       /\ i.err = <<"user does not exist">>

\* the status the claim gives a finished invocation
C7_Status(i) ==
    CASE i.req.method \notin {"GET", "POST", "PUT", "DELETE"} -> 405
      [] AddressedAbsent(i) -> 404
      [] Rejected(i) \/ i.err # Nil -> 400
      [] i.req.method = "POST" -> 201
      [] i.req.method = "DELETE" -> 204
      [] OTHER -> 200

\* C7: the status of every response is the one its method and outcome
\* determine: 200 (GET, PUT), 201 (POST), 204 (DELETE) on success, 404 when
\* the addressed record is absent, 400 for every other failure, 405 for any
\* other method; and no other status.
C7_StatusByMethodAndOutcome ==
    \A p \in Invocations :
        inv[p].pc = "done"
        => /\ inv[p].resp.status = C7_Status(inv[p])
           /\ inv[p].resp.status \in {200, 201, 204, 400, 404, 405}

\* C7's case: one invocation answered 404 for an absent record, the other
\* 400 for a failure of the store
C7_Witness ==
    \E p, q \in Invocations :
        /\ inv[p].pc = "done" /\ inv[p].req.method = "PUT"
        /\ inv[p].resp.status = 404
        /\ inv[q].pc = "done" /\ inv[q].req.method = "DELETE"
        /\ inv[q].calls # << >> /\ ~Answered(inv[q])
        /\ inv[q].resp.status = 400

-----------------------------------------------------------------------------
(* C9 *)

\* C9: the 204 response of a successful DELETE has a body of length zero.
C9_NoContentBodyEmpty ==
    \A p \in Invocations :
        (inv[p].pc = "done" /\ inv[p].resp.status = 204)
        => Len(inv[p].resp.body) = 0

-----------------------------------------------------------------------------
(* C6 *)

\* the page size a limit parameter stands for: the number it spells when
\* that is an integer above 0, else 10
ExpectedLimit(s) ==
    CASE s = <<"1">> -> 1
      [] s = <<"2">> -> 2
      [] s = <<"3">> -> 3
      [] s = <<"+", "2">> -> 2
      [] s = <<"0", "2">> -> 2
      [] OTHER -> 10

\* the records of the table
Stored == {UnmarshalMap(store[e]) : e \in DOMAIN store}

RECURSIVE ReturnedUpTo(_)
\* the number of records the client's first k pages returned
ReturnedUpTo(k) == IF k = 0 THEN 0 ELSE ReturnedUpTo(k - 1) + client.pages[k].n

\* page k returned the last record that remained
ReturnsLast(k) ==
    /\ client.pages[k].n > 0
    /\ ReturnedUpTo(k) = Cardinality(DOMAIN store)

\* every page has at most L records
C6_AtMostLimit ==
    \A k \in 1..Len(client.pages) :
        client.pages[k].n <= ExpectedLimit(client.limit)

\* the pages return stored records, none twice, and all of them once the
\* listing is over
C6_EveryRecordOnce ==
    /\ \A i \in 1..Len(client.seen) : client.seen[i] \in Stored
    /\ \A i, j \in 1..Len(client.seen) :
          i # j => client.seen[i] # client.seen[j]
    /\ ~client.open => {client.seen[i] : i \in 1..Len(client.seen)} = Stored

\* the call that returns the last remaining record returns no cursor
C6_LastRecordNoCursor ==
    \A k \in 1..Len(client.pages) :
        ReturnsLast(k) => client.pages[k].cursor = EmptyText

\* 2 records, limit=1: the first call returns 1 record and a cursor, the
\* second the remaining record and no cursor
C6_TwoCalls ==
    (Cardinality(DOMAIN store) = 2 /\ client.limit = <<"1">>)
    => /\ Len(client.pages) >= 1
          => client.pages[1].n = 1 /\ client.pages[1].cursor # EmptyText
       /\ Len(client.pages) >= 2
          => client.pages[2].n = 1 /\ client.pages[2].cursor = EmptyText

C6_LastRecordCursorIffFull ==
    \A k \in 1..Len(client.pages) :
        ReturnsLast(k)
        => /\ client.pages[k].cursor # EmptyText
              <=> client.pages[k].n = ExpectedLimit(client.limit)
           /\ k < Len(client.pages)
              => /\ client.pages[k + 1].n = 0
                 /\ client.pages[k + 1].cursor = EmptyText
                 /\ Len(client.pages) = k + 1

\* a page has no cursor exactly when it is short of L records, and the
\* listing is over with the first such page
C6_NoCursorIffShort ==
    \A k \in 1..Len(client.pages) :
        /\ client.pages[k].cursor = EmptyText
           <=> client.pages[k].n < ExpectedLimit(client.limit)
        /\ client.pages[k].cursor = EmptyText
           => (k = Len(client.pages) /\ ~client.open)

\* 2 records, limit=1: the first two calls return 1 record and a cursor
\* each, the third no record and no cursor
C6_ThreeCalls ==
    (Cardinality(DOMAIN store) = 2 /\ client.limit = <<"1">>)
    => /\ Len(client.pages) <= 3
       /\ \A k \in 1..Len(client.pages) :
             IF k <= 2
             THEN client.pages[k].n = 1 /\ client.pages[k].cursor # EmptyText
             ELSE client.pages[k].n = 0 /\ client.pages[k].cursor = EmptyText

-----------------------------------------------------------------------------
(* C8 *)

\* the email is of 3 to 254 characters and matches the grammar
WellFormed(e) == Len(e) >= 3 /\ Len(e) <= 254 /\ RxEmailMatch(e)

\* emails that are well-formed, and emails that are not
GoodEmails ==
    { <<"a", "@", "a">>, <<"a", ".", "@", "a">>, <<"-", "@", "a">>,
      <<"a", "@", "a", ".", "a">>, <<"a", "@", "b", ".", "c", "o", "m">>,
      <<"a", "!", "@", "b">>, Rep("a", 252) \o <<"@", "b">>,
      <<"a", "@">> \o Rep("b", 63) }
BadEmails ==
    { <<"a">>, <<"@">>, <<"a", "@">>, <<"@", "a">>, <<"a", "a", "a">>,
      <<"a", "@", "-">>, <<"a", "@", ".">>, <<"a", "@", "a", ".">>,
      <<"a", "@", ".", "a">>, <<"a", "@", "a", "-">>, <<"a", "@", "-", "a">>,
      <<"a", "@", "@", "a">>, <<"a", " ", "@", "a">>, <<"a", "@", "b", "!">>,
      <<"n","o","t","-","a","n","-","e","m","a","i","l">>,
      Rep("a", 253) \o <<"@", "b">>, <<"a", "@">> \o Rep("b", 64) }

\* C8: ValidateUser reports the first failure in the order email required,
\* email format (grammar and 3..254 characters), first name required, last
\* name required, and else nil; it returns one of these five outcomes, and
\* nil exactly when the three fields are non-empty and the email well-formed.
C8_FirstFailureInOrder ==
    vErr # NoValidation
    => /\ vErr = ( IF vUser.Email = EmptyText THEN <<"email is required">>
                   ELSE IF ~WellFormed(vUser.Email) THEN <<"invalid email format">>
                   ELSE IF vUser.FirstName = EmptyText
                        THEN <<"first name is required">>
                   ELSE IF vUser.LastName = EmptyText
                        THEN <<"last name is required">>
                   ELSE Nil )
       /\ vErr \in { <<"email is required">>, <<"invalid email format">>,
                     <<"first name is required">>, <<"last name is required">>,
                     Nil }
       /\ vErr = Nil <=> ( /\ vUser.Email # EmptyText
                           /\ vUser.FirstName # EmptyText
                           /\ vUser.LastName # EmptyText
                           /\ WellFormed(vUser.Email) )
       /\ vUser.Email \in GoodEmails => vErr # <<"invalid email format">>
       /\ vUser.Email \in BadEmails => vErr = <<"invalid email format">>

\* C8's case: a record with a malformed email and no names is reported for
\* its email
C8_Witness ==
    /\ vErr = <<"invalid email format">>
    /\ vUser.Email = <<"a", "@", "-">>
    /\ vUser.FirstName = EmptyText
    /\ vUser.LastName = EmptyText

-----------------------------------------------------------------------------
(* C10 *)

\* invocation i is a list GET that has reached the repository's Scan
Listing(i) ==
    /\ i.req.method = "GET"
    /\ i.req.email = EmptyText
    /\ i.pc = "scan" \/ (i.pc = "done" /\ i.calls # << >>)

\* C10: a list GET scans with the number its limit parameter spells when
\* that is an integer above 0 and with 10 otherwise, never with a limit
\* below 1; its first page has that many records, or all when there are
\* fewer.
C10_LimitOrDefault ==
    \A p \in Invocations :
        Listing(inv[p])
        => /\ inv[p].limit = ExpectedLimit(inv[p].req.limit)
           /\ inv[p].limit >= 1
           /\ (inv[p].pc = "done" /\ inv[p].resp.status = 200
                 /\ inv[p].req.cursor = EmptyText)
              => Len(UsersOf(inv[p].resp.body))
                   = IF Cardinality(DOMAIN store) < ExpectedLimit(inv[p].req.limit)
                     THEN Cardinality(DOMAIN store)
                     ELSE ExpectedLimit(inv[p].req.limit)

\* C10's case: a list GET with limit=-1 answered with all three records of
\* the table
C10_Witness ==
    \E p \in Invocations :
        /\ Listing(inv[p])
        /\ inv[p].req.limit = <<"-", "1">>
        /\ inv[p].pc = "done"
        /\ inv[p].resp.status = 200
        /\ Len(UsersOf(inv[p].resp.body)) = 3

-----------------------------------------------------------------------------
(* C11 *)

\* a create whose existence check the store answers while another create of
\* the same, still absent email stands between its check and its write,
\* passes the check as well
C11_BothPassTheCheck ==
    \A p, q \in Invocations :
        ( /\ p # q
          /\ CheckStep(p, "POST") /\ Answered(inv'[p])
          /\ inv[q].pc = "put" /\ inv[q].req.method = "POST"
          /\ inv[q].key = inv[p].key
          /\ inv[p].key \notin DOMAIN store )
        => /\ inv'[p].pc = "put"
           /\ ~inv'[p].found
           /\ ~inv[q].found

\* the write of a create that passed its check is carried out and answered
\* 201 also when a record has appeared under the email since the check; the
\* table then holds the record of this, the later write
C11_LaterWriteWins ==
    \A p \in Invocations :
        ( /\ WriteStep(p, "POST") /\ Answered(inv'[p])
          /\ inv[p].key \in DOMAIN store )
        => /\ ~inv[p].found
           /\ inv'[p].resp.status = 201
           /\ inv'[p].resp.body = inv[p].req.body
           /\ store' = [store EXCEPT ![inv[p].key] = ItemOf(RecordOf(inv[p].req.body))]

\* C11: two concurrent creates of one absent email are not serialized: the
\* second passes its existence check while the first stands between check
\* and write, and each write is then carried out and answered 201, the later
\* one replacing the record of the earlier.
C11_CreatesNotSerialized ==
    /\ [][C11_BothPassTheCheck]_vars
    /\ [][C11_LaterWriteWins]_vars

\* C11's case: both invocations have created the same email with different
\* names, each having read it absent, both are answered 201, and the table
\* holds the record of one of them
C11_Witness ==
    \E p, q \in Invocations :
        /\ p # q
        /\ inv[p].pc = "done" /\ inv[q].pc = "done"
        /\ inv[p].req.method = "POST" /\ inv[q].req.method = "POST"
        /\ inv[p].key = inv[q].key
        /\ inv[p].user # inv[q].user
        /\ ~inv[p].found /\ ~inv[q].found
        /\ inv[p].resp.status = 201 /\ inv[q].resp.status = 201
        /\ Ops(inv[p]) = <<"GetItem", "PutItem">>
        /\ Ops(inv[q]) = <<"GetItem", "PutItem">>
        /\ inv[p].key \in DOMAIN store
        /\ store[inv[p].key] = MarshalMap(inv[q].user)

-----------------------------------------------------------------------------
(* C12 *)

\* the requests the claim lists: a POST or PUT whose body is not one of the
\* valid records (no JSON, a wrong type, no email, a field empty or the email
\* malformed), a DELETE without email, and any method but the four
RejectedAtBoundary(req) ==
    CASE req.method \in {"POST", "PUT"} ->
            req.body \notin {JsonUser(u) : u \in ValidUsers}
      [] req.method = "DELETE" -> req.email = EmptyText
      [] req.method = "GET" -> FALSE
      [] OTHER -> TRUE

\* an invocation of such a request is answered at once, 400 or 405, and has
\* asked nothing of the store
C12_NoCall ==
    \A p \in Invocations :
        (inv[p].pc # "idle" /\ RejectedAtBoundary(inv[p].req))
        => /\ inv[p].pc = "done"
           /\ inv[p].calls = << >>
           /\ inv[p].resp.status =
                 IF inv[p].req.method \in {"POST", "PUT", "DELETE"} THEN 400 ELSE 405

\* the step that receives such a request leaves the table as it is, and the
\* table changes only in a step of an invocation whose request is none of
\* them
C12_NoChange ==
    /\ \A p \in Invocations :
          (InvokeStep(p) /\ RejectedAtBoundary(inv'[p].req)) => store' = store
    /\ store' # store
       => \E p \in Invocations :
             /\ inv'[p] # inv[p]
             /\ inv[p].pc \in {"put", "delete"}
             /\ ~RejectedAtBoundary(inv[p].req)

\* C12: a POST or PUT with a malformed body or a record that fails
\* validation, a PUT without email, a DELETE without email parameter and a
\* request of an unrecognized method make no call to the store, read or
\* write, and leave the table unchanged.
C12_RejectedNeverReachStorage ==
    /\ []C12_NoCall
    /\ [][C12_NoChange]_vars

\* C12's case: while the table holds a record, a PUT for its email with an
\* empty last name has been turned away without a call, and the record is as
\* the other invocation created it
C12_Witness ==
    \E p, q \in Invocations :
        /\ inv[p].pc = "done" /\ inv[p].req.method = "PUT"
        /\ inv[p].req.body = JsonUser(User(E1, NameB, EmptyText))
        /\ inv[p].calls = << >>
        /\ inv[p].resp.status = 400
        /\ inv[q].pc = "done" /\ inv[q].req.method = "POST"
        /\ inv[q].resp.status = 201
        /\ E1 \in DOMAIN store
        /\ store[E1] = ItemOf(User(E1, NameA, NameB))

-----------------------------------------------------------------------------
(* C13 *)

\* the item is a whole record: three string attributes, none empty, the
\* email well-formed
FullyPresent(item) ==
    /\ item.email.T = "S" /\ item.firstName.T = "S" /\ item.lastName.T = "S"
    /\ item.email.V # EmptyText
    /\ item.firstName.V # EmptyText
    /\ item.lastName.V # EmptyText
    /\ WellFormed(item.email.V)

\* C13: from the empty table on, in every reachable state every item of the
\* table is a whole record that passes validation, it is held under the key
\* that is its own email, and no two items have the same email.
C13_StoredRecordsValid ==
    /\ \A k \in DOMAIN store :
          /\ FullyPresent(store[k])
          /\ store[k].email.V = k
          /\ ValidateUser(UnmarshalMap(store[k])) = Nil
    /\ \A k1, k2 \in DOMAIN store :
          store[k1].email.V = store[k2].email.V => k1 = k2

\* C13's case: the table holds a record for each of two emails, one of them
\* rewritten by an update, after a create with an empty first name and an
\* update with an empty last name were turned away
C13_Witness ==
    \E p, q \in Invocations :
        /\ DOMAIN store = {E1, E2}
        /\ store[E1] = ItemOf(User(E1, NameB, NameA))
        /\ inv[p].pc = "done" /\ inv[p].req.method = "PUT"
        /\ inv[p].req.body = JsonUser(User(E1, NameB, EmptyText))
        /\ inv[p].resp.status = 400
        /\ inv[q].pc = "done" /\ inv[q].req.method = "POST"
        /\ inv[q].req.body = JsonUser(User(E1, EmptyText, NameB))
        /\ inv[q].resp.status = 400

-----------------------------------------------------------------------------
(* C14 *)

\* what the table holds under email k is the same before and after the step
SameUnder(k) ==
    /\ k \in DOMAIN store <=> k \in DOMAIN store'
    /\ k \in DOMAIN store => store'[k] = store[k]

\* a step of a create, update or delete addressed to an email, answered or
\* failed, leaves what the table holds under every other email as it is
C14_OtherKeysUntouched ==
    \A p \in Invocations :
        (inv'[p] # inv[p] /\ inv[p].pc \in {"check", "put", "delete"})
        => \A k \in AllEmails \cup DOMAIN store \cup DOMAIN store' :
              k # inv[p].key => SameUnder(k)

\* a step of a fetchOne or a fetchPage, and the arrival of any request, leave
\* the table as it is
C14_ReadsChangeNothing ==
    \A p \in Invocations :
        (inv'[p] # inv[p] /\ inv[p].pc \in {"idle", "done", "fetch", "scan"})
        => store' = store

\* C14: a create, update or delete addressed to email e never adds, changes
\* or removes the record of another email, whether it succeeds or fails and
\* whatever the other invocation does; fetchOne and fetchPage never change
\* the table.
C14_KeysIndependent ==
    /\ [][C14_OtherKeysUntouched]_vars
    /\ [][C14_ReadsChangeNothing]_vars

\* C14's case: one invocation has deleted the record of one email while the
\* record the other invocation created for the other email is in the table
\* as created
C14_Witness ==
    \E p, q \in Invocations :
        /\ inv[p].pc = "done" /\ inv[p].req.method = "DELETE"
        /\ inv[p].key = E1
        /\ inv[p].resp.status = 204
        /\ inv[q].pc = "done" /\ inv[q].req.method = "POST"
        /\ inv[q].key = E2
        /\ inv[q].resp.status = 201
        /\ DOMAIN store = {E2}
        /\ store[E2] = MarshalMap(inv[q].user)

=============================================================================
